---------------------------- MODULE Spec2Model ----------------------------
(* Model of gitbase's tree_entries virtual table (src/tree_entries.go) and *)
(* of the analyzer validation rules (src/unnamed/part_000).                *)
(*                                                                         *)
(* The specifications share the variables:                                 *)
(*   Spec       the row stream of a tree_entries scan: the repository      *)
(*              driver pulling from treeEntryIter / treeEntriesByHashIter; *)
(*   SpecV      the validation rules applied to one logical-plan node;     *)
(*   SpecRerun  the table scanned a second time;                           *)
(*   SpecTurn   a scan, one turn of a Next loop at a time;                 *)
(*   SpecIter   one treeEntriesByHashIter called directly.                 *)
EXTENDS Integers, Sequences, FiniteSets, TLC

VARIABLES
    dataset,     \* the repositories of the pool, in dataset order
    hashes,      \* tree_hash selector values extracted from the filters
    fault,       \* the one store operation that fails (kind "none": none)
    repoPos,     \* driver: number of repositories already attached
    cur,         \* driver: <<>> or <<it>>, the bound per-repository iterator
    treeCloses,  \* per repository: calls of TreeIter.Close made so far
    out,         \* rows returned so far, each with the repository it came from
    last,        \* the last call on the stream and what it returned
    erred,       \* a Next has returned an error other than io.EOF
    lateProbe,   \* a Next called after such an error moved a cursor
    closes,      \* calls of Close made on the stream
    factory,     \* the iterator value handed to the driver as its factory
    prev,        \* the rows returned by the scan before the current one
    run,         \* scans of the table started so far
    pc,          \* SpecTurn: where the call of Next in progress stands
    ticks,       \* SpecTurn: steps of the call of Next in progress;
                 \* SpecIter: calls of Next made after the end of data
    probed,      \* SpecIter: the indices of hashes read so far, in order
    node,        \* validator: the plan node under validation
    ran,         \* validator: the rule (or "validate") that ran
    verr         \* validator: <<>> (nil) or <<error>>

vars == <<dataset, hashes, fault, repoPos, cur, treeCloses, out, last,
          erred, lateProbe, closes, factory, prev, run, pc, ticks, probed,
          node,
          ran, verr>>

---------------------------------------------------------------------------
(* Bounds of the model. *)
MaxRepos == 2
MaxHashes == 2
MaxCloses == 2
MaxExprs == 2
MaxCols == 2
MaxRuns == 2
MaxLate == 2

---------------------------------------------------------------------------
(* Generic helpers. *)
Range(s) == {s[k] : k \in 1..Len(s)}

SeqsUpTo(S, n) == UNION {[1..k -> S] : k \in 0..n}

RECURSIVE Concat(_)
Concat(ss) == IF ss = <<>> THEN <<>> ELSE Head(ss) \o Concat(Tail(ss))

RECURSIVE IsSubseq(_, _)
IsSubseq(s, t) ==
    IF s = <<>> THEN TRUE
    ELSE IF t = <<>> THEN FALSE
    ELSE IF Head(s) = Head(t) THEN IsSubseq(Tail(s), Tail(t))
    ELSE IsSubseq(s, Tail(t))

IsPrefix(s, t) == Len(s) <= Len(t) /\ SubSeq(t, 1, Len(s)) = s

---------------------------------------------------------------------------
(* Strings of the rows. A hash is one byte here (20 in go-git); its string *)
(* form is its lower-case hex digits.  Strings that are formatted or parsed *)
(* are sequences of one-character strings.                                  *)
HexDigits ==
    <<"0", "1", "2", "3", "4", "5", "6", "7",
      "8", "9", "a", "b", "c", "d", "e", "f">>

\* Hash.String(): hex.EncodeToString(h[:])
HashString(h) == <<HexDigits[(h \div 16) + 1], HexDigits[(h % 16) + 1]>>

\* encoding/hex fromHexChar: 0-9, a-f, A-F; -1 stands for "not a hex digit"
FromHexChar(c) ==
    IF \E k \in 1..16 : HexDigits[k] = c
    THEN (CHOOSE k \in 1..16 : HexDigits[k] = c) - 1
    ELSE CASE c = "A" -> 10 [] c = "B" -> 11 [] c = "C" -> 12
           [] c = "D" -> 13 [] c = "E" -> 14 [] c = "F" -> 15
           [] OTHER -> -1

\* plumbing.NewHash(s): b, _ := hex.DecodeString(s); copy(h[:], b).  The
\* decoder stops at the first bad pair, and what was not decoded stays zero.
NewHash(s) ==
    IF Len(s) >= 2 /\ FromHexChar(s[1]) >= 0 /\ FromHexChar(s[2]) >= 0
    THEN FromHexChar(s[1]) * 16 + FromHexChar(s[2])
    ELSE 0

RECURSIVE FormatOctal(_)
\* strconv.FormatInt(n, 8) for n >= 0
FormatOctal(n) ==
    IF n < 8 THEN <<HexDigits[n + 1]>>
    ELSE FormatOctal(n \div 8) \o <<HexDigits[(n % 8) + 1]>>

---------------------------------------------------------------------------
(* The object store: two tree objects, ta1 holding a file and the subtree  *)
(* tb2. Modes are go-git filemode values: 0100644, 0100755, 040000.        *)
TreeHashes == {161, 178}

IsDir(e) == e.mode = 16384

TreeEntries(h) ==
    CASE h = 161 -> << [name |-> "a", mode |-> 33188, hash |-> 12],
                       [name |-> "d", mode |-> 16384, hash |-> 178] >>
      [] h = 178 -> << [name |-> "b", mode |-> 33261, hash |-> 13] >>
      [] OTHER   -> << >>

RECURSIVE WalkFiles(_, _)
\* tree.Files(): the files of the tree in walk order, subtrees entered in
\* place, each file named by its path from the tree
WalkFiles(h, prefix) ==
    LET es == TreeEntries(h)
        One(e) == IF IsDir(e)
                  THEN WalkFiles(e.hash, prefix \o e.name \o "/")
                  ELSE << [name |-> prefix \o e.name, mode |-> e.mode,
                           hash |-> e.hash] >>
    IN  Concat([k \in 1..Len(es) |-> One(es[k])])

Files(h) == WalkFiles(h, "")

\* the tree objects a repository can hold, in the order TreeObjects() walks
RepoTrees == { <<>>, <<178>>, <<161, 178>> }

RepoIDs == <<"r1", "r2", "r3", "r4">>

Datasets ==
    { [k \in 1..Len(ts) |-> [ID |-> RepoIDs[k], trees |-> ts[k]]] :
        ts \in SeqsUpTo(RepoTrees, MaxRepos) }

\* selector values as the filters give them: the two tree hashes, one of
\* them also in upper case
SelectorStrings == { <<"a", "1">>, <<"A", "1">>, <<"b", "2">> }

NoFault == [kind |-> "none", repo |-> "", tree |-> 0, idx |-> 0]

\* one failing store operation: TreeObjects() of a repository ("open"), the
\* idx-th TreeIter.Next of a repository ("trees"), TreeObject(tree) in a
\* repository ("resolve"), the idx-th FileIter.Next of a tree ("files")
Faults(ds) ==
    {NoFault}
    \cup { [kind |-> "open", repo |-> ds[r].ID, tree |-> 0, idx |-> 0] :
             r \in 1..Len(ds) }
    \cup { [kind |-> "trees", repo |-> ds[r[1]].ID, tree |-> 0, idx |-> r[2]] :
             r \in {p \in (1..Len(ds)) \X (1..2) : p[2] <= Len(ds[p[1]].trees)} }
    \cup { [kind |-> "resolve", repo |-> ds[r[1]].ID, tree |-> r[2], idx |-> 0] :
             r \in {p \in (1..Len(ds)) \X TreeHashes : p[2] \in Range(ds[p[1]].trees)} }
    \cup { [kind |-> "files", repo |-> ds[r[1]].ID, tree |-> r[2], idx |-> r[3]] :
             r \in {p \in (1..Len(ds)) \X TreeHashes \X (1..2) :
                      /\ p[2] \in Range(ds[p[1]].trees)
                      /\ p[3] <= Len(Files(p[2]))} }

---------------------------------------------------------------------------
(* What the store answers. *)
FaultIs(kind, repoID, tree, idx) ==
    fault = [kind |-> kind, repo |-> repoID, tree |-> tree, idx |-> idx]

\* repo.Repo.TreeObject(hash): the tree, plumbing.ErrObjectNotFound, or
\* another error
TreeObject(repo, h) ==
    IF FaultIs("resolve", repo.ID, h, 0) THEN "ERR"
    ELSE IF h \in Range(repo.trees) THEN "nil"
    ELSE "NotFound"

---------------------------------------------------------------------------
(* fileIter, src/tree_entries.go:206-234 *)
fileToRow(repoID, t, f) ==
    <<repoID, HashString(t), HashString(f.hash), FormatOctal(f.mode), f.name>>

\* &fileIter{repoID: ..., t: tree, fi: tree.Files()}
NewFileIter(repoID, t) == [repoID |-> repoID, t |-> t, n |-> 0, open |-> TRUE]

FileIterNext(fi) ==
    LET fs == Files(fi.t) IN
    IF fi.n >= Len(fs)
    THEN [fi |-> fi, row |-> <<>>, err |-> "EOF"]
    ELSE IF FaultIs("files", fi.repoID, fi.t, fi.n + 1)
    THEN [fi |-> [fi EXCEPT !.n = @ + 1], row |-> <<>>, err |-> "ERR"]
    ELSE [fi |-> [fi EXCEPT !.n = @ + 1],
          row |-> <<fileToRow(fi.repoID, fi.t, fs[fi.n + 1])>>,
          err |-> "nil"]

FileIterClose(fi) == [fi EXCEPT !.open = FALSE]

---------------------------------------------------------------------------
(* treeEntryIter, src/tree_entries.go:112-156.  An iterator is a record:   *)
(* typ, the repository handle (repo, repoID), the TreeIter i (iset: i is   *)
(* not nil, ipos: trees consumed, iopen: not closed), the selected hashes  *)
(* and pos of treeEntriesByHashIter, and fi, <<>> (nil) or <<fileIter>>.   *)
(* NewIterator is called on a receiver f, the factory, and answers the     *)
(* receiver as the call leaves it (f), the new iterator (it) and err.      *)
NoRepo == [ID |-> "", trees |-> <<>>]

\* new(treeEntryIter)
ZeroTreeEntryIter ==
    [typ |-> "treeEntryIter", repo |-> NoRepo, repoID |-> "",
     iset |-> FALSE, ipos |-> 0, iopen |-> FALSE, hashes |-> <<>>,
     pos |-> 0, fi |-> <<>>]

\* as TreeEntryIterNewIterator, with the repository id left unset
TreeEntryIterNewIterator_NoRepoID(f, repo) ==
    IF FaultIs("open", repo.ID, 0, 0)
    THEN [f |-> f, it |-> <<>>, err |-> "ERR"]
    ELSE [f |-> f,
          it |-> << [typ |-> "treeEntryIter", repo |-> repo,
                     repoID |-> "", iset |-> TRUE, ipos |-> 0,
                     iopen |-> TRUE, hashes |-> <<>>, pos |-> 0,
                     fi |-> <<>>] >>,
          err |-> "nil"]

TreeEntryIterNewIterator(f, repo) ==
    IF FaultIs("open", repo.ID, 0, 0)
    THEN [f |-> f, it |-> <<>>, err |-> "ERR"]
    ELSE [f |-> f,
          it |-> << [typ |-> "treeEntryIter", repo |-> repo,
                     repoID |-> repo.ID, iset |-> TRUE, ipos |-> 0,
                     iopen |-> TRUE, hashes |-> <<>>, pos |-> 0,
                     fi |-> <<>>] >>,
          err |-> "nil"]

\* row, err := i.fi.Next() and what the loop does with it (the same lines
\* in both iterators); again: the for loop continues

\* as PullResult, with the file cursor kept at the end of its files
PullResult_KeepsCursor(it, r) ==
    IF r.err = "EOF"
    THEN [it |-> it, row |-> <<>>, err |-> "nil", again |-> TRUE]
    ELSE [it |-> [it EXCEPT !.fi = <<r.fi>>], row |-> r.row, err |-> r.err,
          again |-> FALSE]

PullResult(it, r) ==
    IF r.err = "EOF"
    THEN [it |-> [it EXCEPT !.fi = <<>>], row |-> <<>>, err |-> "nil",
          again |-> TRUE]
    ELSE [it |-> [it EXCEPT !.fi = <<r.fi>>], row |-> r.row, err |-> r.err,
          again |-> FALSE]

PullRow(it) == PullResult(it, FileIterNext(it.fi[1]))

\* one turn of the for loop of Next
TreeEntryIterBody(it) ==
    IF it.fi # <<>> THEN PullRow(it)
    ELSE IF it.ipos >= Len(it.repo.trees)
    THEN [it |-> it, row |-> <<>>, err |-> "EOF", again |-> FALSE]
    ELSE IF FaultIs("trees", it.repoID, 0, it.ipos + 1)
    THEN [it |-> [it EXCEPT !.ipos = @ + 1], row |-> <<>>, err |-> "ERR",
          again |-> FALSE]
    ELSE PullRow([it EXCEPT !.ipos = @ + 1,
                            !.fi = <<NewFileIter(it.repoID,
                                                 it.repo.trees[it.ipos + 1])>>])

\* the for loop: turns are taken until one returns
LoopResult(b) == [it |-> b.it, row |-> b.row, err |-> b.err]

\* as TreeEntryIterLoop, with the end of a tree's files returned to the
\* caller as the end of the repository
TreeEntryIterLoop_NoContinue(b) ==
    IF b.again THEN [it |-> b.it, row |-> <<>>, err |-> "EOF"]
    ELSE LoopResult(b)

RECURSIVE TreeEntryIterNext(_)
TreeEntryIterLoop(b) ==
    IF b.again THEN TreeEntryIterNext(b.it) ELSE LoopResult(b)

TreeEntryIterNext(it) == TreeEntryIterLoop(TreeEntryIterBody(it))

\* Close: i.i.Close() when i.i is not nil; released: calls of TreeIter.Close
TreeEntryIterClose(it) ==
    IF it.iset
    THEN [it |-> [it EXCEPT !.iopen = FALSE], released |-> 1]
    ELSE [it |-> it, released |-> 0]

---------------------------------------------------------------------------
(* treeEntriesByHashIter, src/tree_entries.go:158-204 *)
\* &treeEntriesByHashIter{hashes: hs}
HashIterOver(hs) ==
    [typ |-> "treeEntriesByHashIter", repo |-> NoRepo, repoID |-> "",
     iset |-> FALSE, ipos |-> 0, iopen |-> FALSE, hashes |-> hs,
     pos |-> 0, fi |-> <<>>]

\* as TreeEntriesByHashIterNewIterator, with the receiver itself bound to
\* the repository and handed out, its position as the last user left it
TreeEntriesByHashIterNewIterator_SharedReceiver(f, repo) ==
    [f |-> [f EXCEPT !.repo = repo, !.repoID = repo.ID,
                     !.pos = Len(f.hashes)],
     it |-> << [f EXCEPT !.repo = repo, !.repoID = repo.ID] >>,
     err |-> "nil"]

TreeEntriesByHashIterNewIterator(f, repo) ==
    [f |-> f,
     it |-> << [typ |-> "treeEntriesByHashIter", repo |-> repo,
                repoID |-> repo.ID, iset |-> FALSE, ipos |-> 0,
                iopen |-> FALSE, hashes |-> f.hashes, pos |-> 0,
                fi |-> <<>>] >>,
     err |-> "nil"]

\* as ResolveResult, with plumbing.ErrObjectNotFound returned like any
\* other error
ResolveResult_NotFoundIsError(it, hash, res) ==
    IF res # "nil"
    THEN [it |-> [it EXCEPT !.pos = @ + 1], row |-> <<>>, err |-> "ERR",
          again |-> FALSE]
    ELSE PullResult([it EXCEPT !.pos = @ + 1,
                               !.fi = <<NewFileIter(it.repo.ID, hash)>>],
                    FileIterNext(NewFileIter(it.repo.ID, hash)))

\* i.pos++ and the answer res of TreeObject(hash)
ResolveResult(it, hash, res) ==
    IF res = "NotFound"
    THEN [it |-> [it EXCEPT !.pos = @ + 1], row |-> <<>>, err |-> "nil",
          again |-> TRUE]
    ELSE IF res # "nil"
    THEN [it |-> [it EXCEPT !.pos = @ + 1], row |-> <<>>, err |-> "ERR",
          again |-> FALSE]
    ELSE PullRow([it EXCEPT !.pos = @ + 1,
                            !.fi = <<NewFileIter(it.repo.ID, hash)>>])

\* as Resolve, with the position moved on only once the store has answered
\* without an error
Resolve_ErrorKeepsPos(it, hash) ==
    IF TreeObject(it.repo, hash) = "ERR"
    THEN [it |-> it, row |-> <<>>, err |-> "ERR", again |-> FALSE]
    ELSE ResolveResult(it, hash, TreeObject(it.repo, hash))

Resolve(it, hash) == ResolveResult(it, hash, TreeObject(it.repo, hash))

\* as TreeEntriesByHashIterBody, with the end of data decided by the
\* position alone
TreeEntriesByHashIterBody_EndIgnoresCursor(it) ==
    IF it.pos >= Len(it.hashes)
    THEN [it |-> it, row |-> <<>>, err |-> "EOF", again |-> FALSE]
    ELSE IF it.fi = <<>>
    THEN Resolve(it, NewHash(it.hashes[it.pos + 1]))
    ELSE PullRow(it)

\* one turn of the for loop of Next
TreeEntriesByHashIterBody(it) ==
    IF it.pos >= Len(it.hashes) /\ it.fi = <<>>
    THEN [it |-> it, row |-> <<>>, err |-> "EOF", again |-> FALSE]
    ELSE IF it.fi = <<>>
    THEN Resolve(it, NewHash(it.hashes[it.pos + 1]))
    ELSE PullRow(it)

RECURSIVE TreeEntriesByHashIterNext(_)
TreeEntriesByHashIterLoop(b) ==
    IF b.again THEN TreeEntriesByHashIterNext(b.it) ELSE LoopResult(b)

TreeEntriesByHashIterNext(it) ==
    TreeEntriesByHashIterLoop(TreeEntriesByHashIterBody(it))

\* Close releases nothing
TreeEntriesByHashIterClose(it) == [it |-> it, released |-> 0]

---------------------------------------------------------------------------
(* The scan entry points and the repository driver (RowRepoIter). *)

\* RowIter / WithProjectAndFilters: the factory handed to the driver is a
\* treeEntryIter when no tree_hash value was extracted, else a
\* treeEntriesByHashIter over the extracted values
FullScan == Len(hashes) = 0

NewFactory(hs) ==
    IF Len(hs) = 0 THEN ZeroTreeEntryIter ELSE HashIterOver(hs)

NewIterator(f, repo) ==
    IF f.typ = "treeEntryIter" THEN TreeEntryIterNewIterator(f, repo)
    ELSE TreeEntriesByHashIterNewIterator(f, repo)

IterNext(it) ==
    IF it.typ = "treeEntryIter" THEN TreeEntryIterNext(it)
    ELSE TreeEntriesByHashIterNext(it)

IterClose(it) ==
    IF it.typ = "treeEntryIter" THEN TreeEntryIterClose(it)
    ELSE TreeEntriesByHashIterClose(it)

\* the calls of TreeIter.Close counted against the repository of it
CountCloses(tc, it, n) ==
    [k \in 1..Len(tc) |-> IF dataset[k].ID = it.repoID THEN tc[k] + n ELSE tc[k]]

\* the driver's state d = [repoPos, cur, treeCloses, factory].  The bound iterator
\* answered r: a row or an error is handed on, and on its end of data the
\* repository is released and the loop goes on
BoundResult(d, r) ==
    IF r.err = "EOF"
    THEN [d |-> [d EXCEPT !.cur = <<>>,
                          !.treeCloses =
                              CountCloses(@, r.it, IterClose(r.it).released)],
          row |-> <<>>, err |-> "nil", again |-> TRUE]
    ELSE [d |-> [d EXCEPT !.cur = <<r.it>>], row |-> r.row, err |-> r.err,
          again |-> FALSE]

\* the factory answered n for the next repository
AttachResult(d, n) ==
    IF n.err # "nil"
    THEN [d |-> [d EXCEPT !.repoPos = @ + 1, !.factory = n.f],
          row |-> <<>>, err |-> n.err, again |-> FALSE]
    ELSE BoundResult([d EXCEPT !.repoPos = @ + 1, !.cur = n.it,
                               !.factory = n.f],
                     IterNext(n.it[1]))

\* one turn of the driver's loop: attach to the next repository when none
\* is bound, then pull one row
RowRepoIterBody(d) ==
    IF d.cur # <<>> THEN BoundResult(d, IterNext(d.cur[1]))
    ELSE IF d.repoPos >= Len(dataset)
    THEN [d |-> d, row |-> <<>>, err |-> "EOF", again |-> FALSE]
    ELSE AttachResult(d, NewIterator(d.factory, dataset[d.repoPos + 1]))

RECURSIVE RowRepoIterNext(_)
RowRepoIterLoop(b) ==
    IF b.again THEN RowRepoIterNext(b.d)
    ELSE [d |-> b.d, row |-> b.row, err |-> b.err]

RowRepoIterNext(d) == RowRepoIterLoop(RowRepoIterBody(d))

\* early close: the bound iterator, if any, is closed
Closed(d, c) ==
    [d EXCEPT !.cur = <<c.it>>,
              !.treeCloses = CountCloses(@, c.it, c.released)]

RowRepoIterClose(d) ==
    IF d.cur = <<>> THEN d ELSE Closed(d, IterClose(d.cur[1]))

---------------------------------------------------------------------------
(* Plan nodes and expressions, as the rules see them.  An expression has   *)
(* kind "agg" (a sql.Aggregation), "alias" (an *expression.Alias, child    *)
(* <<e>>) or "other", its String() str, and its static type: tuple or not, *)
(* and cols, the NumColumns of the type.                                   *)
Col(name) ==
    [kind |-> "other", str |-> name, tuple |-> FALSE, cols |-> 1, child |-> <<>>]

CountOf(e) ==
    [kind |-> "agg", str |-> "COUNT(" \o e.str \o ")", tuple |-> FALSE,
     cols |-> 1, child |-> <<e>>]

Tuple3 ==
    [kind |-> "other", str |-> "(x, y, x)", tuple |-> TRUE, cols |-> 3,
     child |-> <<>>]

AliasOf(e) ==
    [kind |-> "alias", str |-> e.str \o " as n", tuple |-> e.tuple,
     cols |-> e.cols, child |-> <<e>>]

BaseExprs == {Col("x"), Col("y"), CountOf(Col("y")), Tuple3}

Exprs ==
    BaseExprs \cup {AliasOf(e) : e \in BaseExprs}
              \cup {AliasOf(AliasOf(e)) : e \in BaseExprs}

GroupingExprs == {Col("x"), AliasOf(Col("x"))}

\* a node: kind, the Resolved() flag, exprs (SortFields' columns,
\* Projections or Aggregate), grouping (Grouping), name and schema (the
\* column sources) of a table, child (<<>> or <<n>>) of a TableAlias
MkNode(kind, resolved, exprs, grouping, name, schema, child) ==
    [kind |-> kind, resolved |-> resolved, exprs |-> exprs,
     grouping |-> grouping, name |-> name, schema |-> schema,
     child |-> child]

NoNode == MkNode("none", TRUE, <<>>, <<>>, "", <<>>, <<>>)

Sources == {"t", "u", "v"}

TreeEntriesTableName == "tree_entries"

\* as TreeEntriesSchema, with the first column sourced from another table
TreeEntriesSchema_ForeignSource ==
    <<"repositories", TreeEntriesTableName, TreeEntriesTableName,
      TreeEntriesTableName, TreeEntriesTableName>>

\* the Source of the five columns: repository_id, tree_hash, blob_hash,
\* tree_entry_mode, tree_entry_name
TreeEntriesSchema ==
    <<TreeEntriesTableName, TreeEntriesTableName, TreeEntriesTableName,
      TreeEntriesTableName, TreeEntriesTableName>>

\* the table as a plan node: Resolved(), Name(), Schema()
treeEntriesTable ==
    MkNode("Table", TRUE, <<>>, <<>>, TreeEntriesTableName,
           TreeEntriesSchema, <<>>)

\* the table, and the table under a TableAlias, which is resolved when its
\* child is
TreeEntriesNodes ==
    {treeEntriesTable,
     MkNode("TableAlias", treeEntriesTable.resolved, <<>>, <<>>, "al", <<>>,
            <<treeEntriesTable>>)}

TableNodes ==
    {MkNode("Table", r, <<>>, <<>>, "t", sch, <<>>) :
        r \in BOOLEAN, sch \in SeqsUpTo(Sources, MaxCols)}

FilterNodes ==
    {MkNode("Filter", r, <<>>, <<>>, "", <<>>, <<>>) : r \in BOOLEAN}

Nodes ==
    TableNodes \cup FilterNodes \cup TreeEntriesNodes
    \cup {MkNode("Sort", r, es, <<>>, "", <<>>, <<>>) :
            r \in BOOLEAN, es \in SeqsUpTo(Exprs, MaxExprs)}
    \cup {MkNode("Project", r, es, <<>>, "", <<>>, <<>>) :
            r \in BOOLEAN, es \in SeqsUpTo(Exprs, MaxExprs)}
    \cup {MkNode("GroupBy", r, es, gs, "", <<>>, <<>>) :
            r \in BOOLEAN, es \in SeqsUpTo(Exprs, MaxExprs),
            gs \in SeqsUpTo(GroupingExprs, MaxExprs)}
    \cup {MkNode("TableAlias", r, <<>>, <<>>, "al", <<>>, <<c>>) :
            r \in BOOLEAN, c \in TableNodes \cup FilterNodes}

IsTable(n) == n.kind = "Table"

\* an error kind with its arguments: args the strings, pos and cols the
\* numbers of ErrProjectTuple
MkErr(kind, args, pos, cols) ==
    <<[kind |-> kind, args |-> args, pos |-> pos, cols |-> cols]>>

---------------------------------------------------------------------------
(* The validation rules, src/unnamed/part_000.  A rule answers <<>> (nil) *)
(* or <<error>>.                                                           *)
\* as validateIsResolved, with the flag read the wrong way round for tables
validateIsResolved_NotTables(n) ==
    IF ~n.resolved /\ n.kind # "Table"
    THEN MkErr("ErrValidationResolved", <<n.kind>>, 0, 0)
    ELSE <<>>

validateIsResolved(n) ==
    IF ~n.resolved THEN MkErr("ErrValidationResolved", <<n.kind>>, 0, 0)
    ELSE <<>>

\* as AnyAggregation, with only the first sort field looked at
AnyAggregation_FirstOnly(fields) ==
    IF fields = <<>> THEN <<>>
    ELSE IF Head(fields).kind = "agg"
    THEN MkErr("ErrValidationOrderBy", <<>>, 0, 0)
    ELSE <<>>

RECURSIVE AnyAggregation(_)
\* the loop over n.SortFields
AnyAggregation(fields) ==
    IF fields = <<>> THEN <<>>
    ELSE IF Head(fields).kind = "agg"
    THEN MkErr("ErrValidationOrderBy", <<>>, 0, 0)
    ELSE AnyAggregation(Tail(fields))

validateOrderBy(n) ==
    IF n.kind = "Sort" THEN AnyAggregation(n.exprs) ELSE <<>>

RECURSIVE stringContains(_, _)
stringContains(strs, target) ==
    IF strs = <<>> THEN FALSE
    ELSE IF Head(strs) = target THEN TRUE
    ELSE stringContains(Tail(strs), target)

\* as isValidAgg, with the alias compared by its own string
isValidAgg_NoUnwrap(validAggs, expr) ==
    IF expr.kind = "agg" THEN TRUE
    ELSE stringContains(validAggs, expr.str)

RECURSIVE isValidAgg_ChecksNested(_, _)
\* as isValidAgg, with the argument of an aggregation validated too
isValidAgg_ChecksNested(validAggs, expr) ==
    IF expr.kind = "agg"
    THEN isValidAgg_ChecksNested(validAggs, expr.child[1])
    ELSE IF expr.kind = "alias"
    THEN isValidAgg_ChecksNested(validAggs, expr.child[1])
    ELSE stringContains(validAggs, expr.str)

RECURSIVE isValidAgg(_, _)
isValidAgg(validAggs, expr) ==
    IF expr.kind = "agg" THEN TRUE
    ELSE IF expr.kind = "alias" THEN isValidAgg(validAggs, expr.child[1])
    ELSE stringContains(validAggs, expr.str)

RECURSIVE CheckAggregates(_, _)
\* the loop over n.Aggregate
CheckAggregates(validAggs, aggs) ==
    IF aggs = <<>> THEN <<>>
    ELSE IF Head(aggs).kind # "agg" /\ ~isValidAgg(validAggs, Head(aggs))
    THEN MkErr("ErrValidationGroupBy", <<Head(aggs).str>>, 0, 0)
    ELSE CheckAggregates(validAggs, Tail(aggs))

validateGroupBy(n) ==
    IF n.kind # "GroupBy" THEN <<>>
    ELSE IF Len(n.grouping) = 0 THEN <<>>
    ELSE CheckAggregates([k \in 1..Len(n.grouping) |-> n.grouping[k].str],
                         n.exprs)

RECURSIVE CheckSources(_, _)
\* the loop over t.Schema()
CheckSources(name, schema) ==
    IF schema = <<>> THEN <<>>
    ELSE IF Head(schema) # name
    THEN MkErr("ErrValidationSchemaSource", <<name, Head(schema)>>, 0, 0)
    ELSE CheckSources(name, Tail(schema))

validateSchema(t) == CheckSources(t.name, t.schema)

\* as validateSchemaSource, with a table alias never validated
validateSchemaSource_SkipAlias(n) ==
    IF n.kind = "TableAlias" THEN <<>>
    ELSE IF IsTable(n) THEN validateSchema(n)
    ELSE <<>>

validateSchemaSource(n) ==
    IF n.kind = "TableAlias"
    THEN IF IsTable(n.child[1]) THEN validateSchema(n.child[1]) ELSE <<>>
    ELSE IF IsTable(n) THEN validateSchema(n)
    ELSE <<>>

RECURSIVE CheckTuples_ZeroIndexed(_, _)
\* as CheckTuples, with the loop index reported as the position
CheckTuples_ZeroIndexed(es, i) ==
    IF i >= Len(es) THEN <<>>
    ELSE IF es[i + 1].tuple
    THEN MkErr("ErrProjectTuple", <<>>, i, es[i + 1].cols)
    ELSE CheckTuples_ZeroIndexed(es, i + 1)

RECURSIVE CheckTuples(_, _)
\* the loops over n.Projections and n.Aggregate; i counts from 0
CheckTuples(es, i) ==
    IF i >= Len(es) THEN <<>>
    ELSE IF es[i + 1].tuple
    THEN MkErr("ErrProjectTuple", <<>>, i + 1, es[i + 1].cols)
    ELSE CheckTuples(es, i + 1)

validateProjectTuples(n) ==
    IF n.kind = "Project" \/ n.kind = "GroupBy" THEN CheckTuples(n.exprs, 0)
    ELSE <<>>

\* as DefaultValidationRules, with the group-by rule moved to the front
DefaultValidationRules_GroupByFirst ==
    <<"validate_group_by", "validate_resolved", "validate_order_by",
      "validate_schema_source", "validate_project_tuples">>

DefaultValidationRules ==
    <<"validate_resolved", "validate_order_by", "validate_group_by",
      "validate_schema_source", "validate_project_tuples">>

\* the function a rule's name stands for in DefaultValidationRules
Apply(rule, n) ==
    CASE rule = "validate_resolved"       -> validateIsResolved(n)
      [] rule = "validate_order_by"       -> validateOrderBy(n)
      [] rule = "validate_group_by"       -> validateGroupBy(n)
      [] rule = "validate_schema_source"  -> validateSchemaSource(n)
      [] rule = "validate_project_tuples" -> validateProjectTuples(n)

RECURSIVE Validate(_, _)
\* the analyzer's validation pass: every rule of the list, in list order,
\* on the root; the first error ends it
ValidateStep(rules, n, err) ==
    IF err # <<>> THEN err ELSE Validate(Tail(rules), n)

Validate(rules, n) ==
    IF rules = <<>> THEN <<>>
    ELSE ValidateStep(rules, n, Apply(Head(rules), n))

---------------------------------------------------------------------------
(* Spec: one scan of the table. *)
ScanFaults(ds, hs) ==
    {f \in Faults(ds) :
        IF Len(hs) = 0 THEN f.kind # "resolve"
        ELSE f.kind \notin {"open", "trees"}}

Driver ==
    [repoPos |-> repoPos, cur |-> cur, treeCloses |-> treeCloses,
     factory |-> factory]

Init ==
    /\ dataset \in Datasets
    /\ hashes \in SeqsUpTo(SelectorStrings, MaxHashes)
    /\ fault \in ScanFaults(dataset, hashes)
    /\ repoPos = 0
    /\ cur = <<>>
    /\ treeCloses = [k \in 1..Len(dataset) |-> 0]
    /\ out = <<>>
    /\ last = [op |-> "none", err |-> "nil", row |-> <<>>]
    /\ erred = FALSE
    /\ lateProbe = FALSE
    /\ closes = 0
    /\ factory = NewFactory(hashes)
    /\ prev = [rows |-> <<>>, done |-> FALSE]
    /\ run = 1
    /\ pc = "idle"
    /\ ticks = 0
    /\ probed = <<>>
    /\ node = NoNode
    /\ ran = "none"
    /\ verr = <<>>

\* the stream's Next answered r
Returned(r) ==
    /\ factory' = r.d.factory
    /\ repoPos' = r.d.repoPos
    /\ cur' = r.d.cur
    /\ treeCloses' = r.d.treeCloses
    /\ out' = IF r.err = "nil"
              THEN Append(out, [src |-> r.d.repoPos, row |-> r.row[1]])
              ELSE out
    /\ last' = [op |-> "Next", err |-> r.err, row |-> r.row]
    /\ erred' = (erred \/ r.err = "ERR")
    /\ lateProbe' = (lateProbe \/ (erred /\ r.d # Driver))

\* the consumer pulls the next row of the stream
StreamNext ==
    /\ closes = 0
    /\ Returned(RowRepoIterNext(Driver))
    /\ UNCHANGED <<dataset, hashes, fault, closes, prev, run, pc, ticks,
                   probed,
                   node, ran, verr>>

StreamClosed(d) ==
    /\ cur' = d.cur
    /\ treeCloses' = d.treeCloses

\* the consumer closes the stream
StreamClose ==
    /\ closes < MaxCloses
    /\ StreamClosed(RowRepoIterClose(Driver))
    /\ closes' = closes + 1
    /\ last' = [op |-> "Close", err |-> "nil", row |-> <<>>]
    /\ UNCHANGED <<dataset, hashes, fault, repoPos, out, erred, lateProbe,
                   factory, prev, run, pc, ticks, probed, node, ran,
                   verr>>

Next == StreamNext \/ StreamClose

Spec == Init /\ [][Next]_vars

---------------------------------------------------------------------------

(* SpecRerun: the table scanned in full, then scanned again. *)
InitRerun ==
    /\ Init
    /\ hashes = <<>>

\* as RowIter, with the driver of the scan before handed out again
RowIter_KeepDriver(d) == d

\* treeEntriesTable.RowIter: a new treeEntryIter is the factory of a new
\* driver
RowIter(d) ==
    [repoPos |-> 0, cur |-> <<>>,
     treeCloses |-> [k \in 1..Len(dataset) |-> 0],
     factory |-> ZeroTreeEntryIter]

Rescanned(d) ==
    /\ factory' = d.factory
    /\ repoPos' = d.repoPos
    /\ cur' = d.cur
    /\ treeCloses' = d.treeCloses

\* the table is scanned again; what the scan before returned is kept in
\* prev
Rescan ==
    /\ run < MaxRuns
    /\ run' = run + 1
    /\ prev' = [rows |-> out,
                done |-> (last.op = "Next" /\ last.err = "EOF")]
    /\ Rescanned(RowIter(Driver))
    /\ out' = <<>>
    /\ last' = [op |-> "none", err |-> "nil", row |-> <<>>]
    /\ erred' = FALSE
    /\ lateProbe' = FALSE
    /\ UNCHANGED <<dataset, hashes, fault, closes, pc, ticks, probed, node,
                   ran,
                   verr>>

NextRerun == StreamNext \/ Rescan

SpecRerun == InitRerun /\ [][NextRerun]_vars

---------------------------------------------------------------------------

(* SpecTurn: a scan in which every turn of the for loop of a Next is a     *)
(* step.  pc is "idle" between calls, "outer" at the top of the driver's   *)
(* loop and "inner" at the top of the bound iterator's loop; ticks counts  *)
(* the steps of the call in progress, the call itself being the first.     *)
InitTurn == Init

IterBody(it) ==
    IF it.typ = "treeEntryIter" THEN TreeEntryIterBody(it)
    ELSE TreeEntriesByHashIterBody(it)

\* the consumer calls Next on the stream
CallNext ==
    /\ pc = "idle"
    /\ pc' = "outer"
    /\ ticks' = 1
    /\ UNCHANGED <<dataset, hashes, fault, repoPos, cur, treeCloses, out,
                   last, erred, lateProbe, closes, factory, prev, run,
                   probed, node, ran, verr>>

\* the call returns row and err to the consumer
TurnReturns(row, err) ==
    /\ pc' = "idle"
    /\ out' = IF err = "nil"
              THEN Append(out, [src |-> repoPos, row |-> row[1]])
              ELSE out
    /\ last' = [op |-> "Next", err |-> err, row |-> row]
    /\ erred' = (erred \/ err = "ERR")

TurnGoesOn(where) ==
    /\ pc' = where
    /\ UNCHANGED <<out, last, erred>>

\* the factory answered n for the next repository
Attached(n) ==
    /\ repoPos' = repoPos + 1
    /\ factory' = n.f
    /\ cur' = n.it
    /\ IF n.err # "nil" THEN TurnReturns(<<>>, n.err)
       ELSE TurnGoesOn("inner")

\* one turn of the driver's loop, up to its call of the bound iterator
DriverTurn ==
    /\ pc = "outer"
    /\ ticks' = ticks + 1
    /\ IF cur # <<>>
       THEN TurnGoesOn("inner") /\ UNCHANGED <<repoPos, factory, cur>>
       ELSE IF repoPos >= Len(dataset)
       THEN TurnReturns(<<>>, "EOF") /\ UNCHANGED <<repoPos, factory, cur>>
       ELSE Attached(NewIterator(factory, dataset[repoPos + 1]))
    /\ UNCHANGED <<dataset, hashes, fault, treeCloses, lateProbe, closes,
                   prev, run, probed, node, ran, verr>>

\* the bound iterator's turn answered b
Turned(b) ==
    IF b.again
    THEN /\ cur' = <<b.it>>
         /\ TurnGoesOn("inner")
         /\ UNCHANGED treeCloses
    ELSE IF b.err = "EOF"
    THEN /\ cur' = <<>>
         /\ treeCloses' = CountCloses(treeCloses, b.it,
                                      IterClose(b.it).released)
         /\ TurnGoesOn("outer")
    ELSE /\ cur' = <<b.it>>
         /\ TurnReturns(b.row, b.err)
         /\ UNCHANGED treeCloses

\* one turn of the for loop of the bound iterator's Next
IterTurn ==
    /\ pc = "inner"
    /\ ticks' = ticks + 1
    /\ Turned(IterBody(cur[1]))
    /\ UNCHANGED <<dataset, hashes, fault, repoPos, lateProbe, closes,
                   factory, prev, run, probed, node, ran, verr>>

NextTurn == CallNext \/ DriverTurn \/ IterTurn

\* every step of NextTurn moves ticks, and one of them can always be
\* taken
Tick == ticks' = IF pc = "idle" THEN 1 ELSE ticks + 1

\* the consumer goes on calling Next and a loop that can take a turn takes
\* it: the scan does not come to a halt
SpecTurn ==
    /\ InitTurn
    /\ [][NextTurn]_vars
    /\ WF_ticks(Tick)

---------------------------------------------------------------------------

(* SpecIter: one treeEntriesByHashIter over one repository, called         *)
(* directly, also after it has returned an error or the end of data,       *)
(* while the store operation that fails changes between the calls.         *)
InitIter ==
    /\ Init
    /\ Len(dataset) = 1
    /\ Len(hashes) > 0

\* the index of i.hashes a turn of the loop reads, if it reads one
ReadAt(it) ==
    IF it.fi = <<>> /\ it.pos < Len(it.hashes) THEN <<it.pos + 1>> ELSE <<>>

RECURSIVE HashIterReads(_)
ReadsThen(it, b) ==
    ReadAt(it) \o (IF b.again THEN HashIterReads(b.it) ELSE <<>>)

\* the indices of i.hashes one call of Next reads, in order
HashIterReads(it) == ReadsThen(it, TreeEntriesByHashIterBody(it))

HashIterReturned(r) ==
    /\ cur' = <<r.it>>
    /\ last' = [op |-> "Next", err |-> r.err, row |-> r.row]
    /\ erred' = (erred \/ r.err = "ERR")

\* NewIterator for the repository, on the first call
Bound ==
    IF cur = <<>>
    THEN TreeEntriesByHashIterNewIterator(factory, dataset[1]).it[1]
    ELSE cur[1]

\* Next is called on the iterator
HashIterNext ==
    /\ last.err = "EOF" => ticks < MaxLate
    /\ ticks' = IF last.err = "EOF" THEN ticks + 1 ELSE ticks
    /\ HashIterReturned(TreeEntriesByHashIterNext(Bound))
    /\ probed' = probed \o HashIterReads(Bound)
    /\ repoPos' = 1
    /\ UNCHANGED <<dataset, hashes, fault, treeCloses, out, lateProbe,
                   closes, factory, prev, run, pc, node, ran, verr>>

\* another store operation, or none, fails from now on
StoreChanges ==
    /\ fault' \in ScanFaults(dataset, hashes) \ {fault}
    /\ UNCHANGED <<dataset, hashes, repoPos, cur, treeCloses, out, last,
                   erred, lateProbe, closes, factory, prev, run, pc, ticks,
                   probed, node, ran, verr>>

NextIter == HashIterNext \/ StoreChanges

SpecIter == InitIter /\ [][NextIter]_vars

---------------------------------------------------------------------------

(* SpecV: one plan node, validated as a whole or by one rule. *)
InitV ==
    /\ dataset = <<>>
    /\ hashes = <<>>
    /\ fault = NoFault
    /\ repoPos = 0
    /\ cur = <<>>
    /\ treeCloses = <<>>
    /\ out = <<>>
    /\ last = [op |-> "none", err |-> "nil", row |-> <<>>]
    /\ erred = FALSE
    /\ lateProbe = FALSE
    /\ closes = 0
    /\ factory = ZeroTreeEntryIter
    /\ prev = [rows |-> <<>>, done |-> FALSE]
    /\ run = 1
    /\ pc = "idle"
    /\ ticks = 0
    /\ probed = <<>>
    /\ node \in Nodes
    /\ ran = "none"
    /\ verr = <<>>

Ran(what, err) ==
    /\ ran' = what
    /\ verr' = err
    /\ UNCHANGED <<dataset, hashes, fault, repoPos, cur, treeCloses, out,
                   last, erred, lateProbe, closes, factory, prev, run, pc,
                   ticks, probed, node>>

RunValidate ==
    /\ ran = "none"
    /\ Ran("validate", Validate(DefaultValidationRules, node))

RunIsResolved ==
    /\ ran = "none"
    /\ Ran("validate_resolved", validateIsResolved(node))

RunOrderBy ==
    /\ ran = "none"
    /\ Ran("validate_order_by", validateOrderBy(node))

RunGroupBy ==
    /\ ran = "none"
    /\ Ran("validate_group_by", validateGroupBy(node))

RunSchemaSource ==
    /\ ran = "none"
    /\ Ran("validate_schema_source", validateSchemaSource(node))

RunProjectTuples ==
    /\ ran = "none"
    /\ Ran("validate_project_tuples", validateProjectTuples(node))

NextV ==
    \/ RunValidate
    \/ RunIsResolved
    \/ RunOrderBy
    \/ RunGroupBy
    \/ RunSchemaSource
    \/ RunProjectTuples

SpecV == InitV /\ [][NextV]_vars

---------------------------------------------------------------------------
(* Properties of the scan. *)
Count(e) == Cardinality({i \in 1..Len(out) : out[i] = e})

\* the (repository, tree object, file reachable in the tree) triples
Pairs ==
    {p \in (1..Len(dataset)) \X TreeHashes \X (1..2) :
        /\ p[2] \in Range(dataset[p[1]].trees)
        /\ p[3] <= Len(Files(p[2]))}

RowOf(p) ==
    [src |-> p[1], row |-> fileToRow(dataset[p[1]].ID, p[2], Files(p[2])[p[3]])]

TreeRows(k, t) ==
    [j \in 1..Len(Files(t)) |-> RowOf(<<k, t, j>>)]

\* the rows of repository k in the store's enumeration order: tree by tree
\* for the full traversal, selected hash by selected hash otherwise
FullRows(k) ==
    Concat([n \in 1..Len(dataset[k].trees) |-> TreeRows(k, dataset[k].trees[n])])

TargetedRows(k) ==
    Concat([n \in 1..Len(hashes) |->
              IF NewHash(hashes[n]) \in Range(dataset[k].trees)
              THEN TreeRows(k, NewHash(hashes[n])) ELSE <<>>])

EnumRows(k) == IF FullScan THEN FullRows(k) ELSE TargetedRows(k)

OutOf(k) == SelectSeq(out, LAMBDA e : e.src = k)

StreamAtEOF == last.op = "Next" /\ last.err = "EOF"

\* C1: a full-traversal scan with no store error returns one row for every
\* (repository, tree object, file reachable in the tree) triple: no row
\* that is not such a triple, no triple twice, no error, and when the
\* stream signals end of data every triple has been returned exactly once.
C1_FullScanExactlyOnce ==
    (FullScan /\ fault = NoFault) =>
        /\ last.err # "ERR"
        /\ \A i \in 1..Len(out) : out[i] \in {RowOf(p) : p \in Pairs}
        /\ \A p \in Pairs : Count(RowOf(p)) <= 1
        /\ StreamAtEOF => \A p \in Pairs : Count(RowOf(p)) = 1

C1_Witness ==
    /\ FullScan /\ fault = NoFault /\ StreamAtEOF
    /\ Len(dataset) = 2
    /\ dataset[1].trees = <<161, 178>> /\ dataset[2].trees = <<161, 178>>
    /\ Len(out) = 6

\* C2: in a targeted scan with no store error a selected hash that the
\* current repository does not hold gives no row and no error; the other
\* selected hashes and the later repositories are still scanned, so at the
\* end of data the stream has returned, repository by repository, exactly
\* the rows of the selected trees each repository holds (none for a
\* repository holding none of them).
C2_NotFoundSkipped ==
    (~FullScan /\ fault = NoFault) =>
        /\ last.err # "ERR"
        /\ StreamAtEOF =>
              out = Concat([k \in 1..Len(dataset) |-> TargetedRows(k)])

C2_Witness ==
    /\ ~FullScan /\ fault = NoFault /\ StreamAtEOF
    /\ Len(dataset) = 2
    /\ \E n \in 1..Len(hashes) :
          /\ NewHash(hashes[n]) \notin Range(dataset[1].trees)
          /\ NewHash(hashes[n]) \in Range(dataset[2].trees)
    /\ \A n \in 1..Len(hashes) :
          NewHash(hashes[n]) \notin Range(dataset[1].trees)
    /\ out # <<>>
    /\ \A i \in 1..Len(out) : out[i].src = 2

\* C3: once a Next has returned an error other than end of data, no later
\* Next returns a row and none attempts a further hash, tree or repository.
C3_AbortedAfterError ==
    erred => /\ ~lateProbe
             /\ ~(last.op = "Next" /\ last.err = "nil")

\* C4: after Close on a full-traversal scan neither the tree-object
\* iterator nor the current file iterator of the bound repository is open.
C4_CloseReleasesAll ==
    (FullScan /\ closes > 0 /\ cur # <<>>) =>
        /\ ~cur[1].iopen
        /\ cur[1].fi # <<>> => ~cur[1].fi[1].open

\* C5: however often Close is called, the tree-object iterator of a
\* repository is released at most once, and once the stream is closed the
\* repository that was bound has been released.
C5_ReleasedOnce ==
    /\ \A k \in 1..Len(dataset) : treeCloses[k] <= 1
    /\ (FullScan /\ closes > 0 /\ cur # <<>>) =>
          \A k \in 1..Len(dataset) :
              dataset[k].ID = cur[1].repoID => treeCloses[k] = 1

\* C6: every row carries the id of the repository its iterator was bound
\* to, the rows of one repository follow the store's enumeration order (all
\* of them, in order, as long as no store operation failed), and the rows
\* are grouped by repository in dataset order.
C6_RowsGroupedInOrder ==
    /\ \A i \in 1..Len(out) :
          /\ out[i].src \in 1..Len(dataset)
          /\ out[i].row[1] = dataset[out[i].src].ID
    /\ \A i, j \in 1..Len(out) : i < j => out[i].src <= out[j].src
    /\ \A k \in 1..Len(dataset) :
          /\ IsSubseq(OutOf(k), EnumRows(k))
          /\ fault = NoFault => IsPrefix(OutOf(k), EnumRows(k))

C6_Witness ==
    /\ Len(out) >= 3
    /\ \E i, j \in 1..Len(out) : out[i].src = 1 /\ out[j].src = 2
    /\ \E i, j \in 1..Len(out) :
          i < j /\ out[i].src = out[j].src /\ out[i].row[2] # out[j].row[2]

---------------------------------------------------------------------------
(* Properties of the validator. *)

\* C7: the validation pass answers with the error of the first rule that
\* fails in the order validate_resolved, validate_order_by,
\* validate_group_by, validate_schema_source, validate_project_tuples, and
\* with no error when none fails; a node that breaks several rules reports
\* the earliest one only.
C7_FirstFailingRule ==
    ran = "validate" =>
        verr = IF validateIsResolved(node) # <<>>
               THEN validateIsResolved(node)
               ELSE IF validateOrderBy(node) # <<>>
               THEN validateOrderBy(node)
               ELSE IF validateGroupBy(node) # <<>>
               THEN validateGroupBy(node)
               ELSE IF validateSchemaSource(node) # <<>>
               THEN validateSchemaSource(node)
               ELSE validateProjectTuples(node)

C7_Witness ==
    /\ ran = "validate"
    /\ node.kind = "GroupBy" /\ ~node.resolved
    /\ validateGroupBy(node) # <<>>
    /\ validateProjectTuples(node) # <<>>
    /\ verr # <<>> /\ verr[1].kind = "ErrValidationResolved"

\* C8: the Resolved rule fails with the Unresolved error, carrying the
\* node, for a node whose resolved flag is false and passes for a node
\* whose flag is true, whatever the node's variant and contents.
C8_ResolvedRule ==
    ran = "validate_resolved" =>
        /\ node.resolved => verr = <<>>
        /\ ~node.resolved =>
              /\ verr # <<>>
              /\ verr[1].kind = "ErrValidationResolved"
              /\ verr[1].args = <<node.kind>>

C8_Witness ==
    /\ ran = "validate_resolved"
    /\ ~node.resolved /\ node.kind = "Table"
    /\ verr # <<>>

RECURSIVE Unwrap(_)
\* the expression under every alias wrapper
Unwrap(e) == IF e.kind = "alias" THEN Unwrap(e.child[1]) ELSE e

\* e, unwrapped, is neither an aggregation nor string-equal to a grouping
\* expression of n
NotGrouped(n, e) ==
    /\ Unwrap(e).kind # "agg"
    /\ \A k \in 1..Len(n.grouping) : n.grouping[k].str # Unwrap(e).str

FirstNotGrouped(n) ==
    CHOOSE i \in 1..Len(n.exprs) :
        /\ NotGrouped(n, n.exprs[i])
        /\ \A j \in 1..(i - 1) : ~NotGrouped(n, n.exprs[j])

\* C9: the Group-by rule passes for a node that is no GroupBy and for a
\* GroupBy without grouping expressions; with grouping expressions it fails
\* exactly when some output expression, unwrapped, is neither an
\* aggregation nor string-equal to a grouping expression, and the error
\* carries the string of the first such output expression.
C9_GroupByRule ==
    ran = "validate_group_by" =>
        IF /\ node.kind = "GroupBy"
           /\ Len(node.grouping) > 0
           /\ \E i \in 1..Len(node.exprs) : NotGrouped(node, node.exprs[i])
        THEN verr = MkErr("ErrValidationGroupBy",
                          <<node.exprs[FirstNotGrouped(node)].str>>, 0, 0)
        ELSE verr = <<>>

C9_Witness ==
    /\ ran = "validate_group_by"
    /\ node.kind = "GroupBy"
    /\ node.grouping = <<Col("x")>>
    /\ node.exprs = <<AliasOf(AliasOf(Col("x"))), AliasOf(Col("y"))>>
    /\ verr = MkErr("ErrValidationGroupBy", <<"y as n">>, 0, 0)

\* the table the Schema-source rule looks at: the node, or the table under
\* a TableAlias
CheckedTable(n) ==
    IF n.kind = "TableAlias"
    THEN IF n.child[1].kind = "Table" THEN <<n.child[1]>> ELSE <<>>
    ELSE IF n.kind = "Table" THEN <<n>>
    ELSE <<>>

BadColumns(t) == {i \in 1..Len(t.schema) : t.schema[i] # t.name}

Least(S) == CHOOSE i \in S : \A j \in S : i <= j

\* C10: the Schema-source rule fails for a Table node, and for a TableAlias
\* over a Table, when a column of the table's schema has a source other
\* than the table's name, with the table's name and the source of the
\* first such column; it passes otherwise and for every other node.
C10_SchemaSourceRule ==
    ran = "validate_schema_source" =>
        IF CheckedTable(node) # <<>> /\ BadColumns(CheckedTable(node)[1]) # {}
        THEN verr = MkErr("ErrValidationSchemaSource",
                          << CheckedTable(node)[1].name,
                             CheckedTable(node)[1].schema[
                                 Least(BadColumns(CheckedTable(node)[1]))] >>,
                          0, 0)
        ELSE verr = <<>>

C10_Witness ==
    /\ ran = "validate_schema_source"
    /\ node.kind = "TableAlias" /\ node.name = "al"
    /\ node.child[1].schema = <<"t", "v">>
    /\ verr = MkErr("ErrValidationSchemaSource", <<"t", "v">>, 0, 0)

TupleAt(n) == {i \in 1..Len(n.exprs) : n.exprs[i].tuple}

\* C11: the Projection rule looks at the output expressions of a Project
\* and at the aggregate list of a GroupBy, with or without grouping
\* expressions; it fails exactly when one of them has a tuple type, with
\* the 1-indexed position of the first such expression and the number of
\* columns of its type, and it passes for every other node.
C11_ProjectTuplesRule ==
    ran = "validate_project_tuples" =>
        IF node.kind \in {"Project", "GroupBy"} /\ TupleAt(node) # {}
        THEN verr = MkErr("ErrProjectTuple", <<>>, Least(TupleAt(node)),
                          node.exprs[Least(TupleAt(node))].cols)
        ELSE verr = <<>>

C11_Witness ==
    /\ ran = "validate_project_tuples"
    /\ node.kind = "GroupBy"
    /\ node.grouping = <<>>
    /\ node.exprs = <<Col("x"), AliasOf(Tuple3)>>
    /\ verr = MkErr("ErrProjectTuple", <<>>, 2, 3)

\* C12: the Order-by rule fails for a Sort node one of whose sort keys is
\* itself an aggregation, passes for a Sort node none of whose sort keys is
\* one, and passes for every node that is no Sort.
C12_OrderByRule ==
    ran = "validate_order_by" =>
        IF /\ node.kind = "Sort"
           /\ \E i \in 1..Len(node.exprs) : node.exprs[i].kind = "agg"
        THEN verr = MkErr("ErrValidationOrderBy", <<>>, 0, 0)
        ELSE verr = <<>>

C12_Witness ==
    /\ ran = "validate_order_by"
    /\ node.kind = "Sort"
    /\ node.exprs = <<Col("x"), CountOf(Col("y"))>>
    /\ verr = MkErr("ErrValidationOrderBy", <<>>, 0, 0)

\* C13: a full-traversal scan run again over the same dataset returns the
\* rows of the run before, in the same order: while it runs its rows are
\* the first rows of the run before or go on from them, at its end they
\* are the rows of a run before that had reached its end, and the factory
\* is the new treeEntryIter it was made with.
C13_RerunSameRows ==
    (run > 1 /\ FullScan) =>
        /\ factory = ZeroTreeEntryIter
        /\ IsPrefix(out, prev.rows) \/ IsPrefix(prev.rows, out)
        /\ (prev.done /\ StreamAtEOF) => out = prev.rows

C13_Witness ==
    /\ run = 2
    /\ FullScan
    /\ fault = NoFault
    /\ Len(dataset) = 2
    /\ prev.done
    /\ StreamAtEOF
    /\ Len(out) = 6
    /\ out = prev.rows

\* the rows of the full traversal of repository k whose tree_hash column
\* is one of the selected values
SelectedFullRows(k) ==
    SelectSeq(FullRows(k), LAMBDA e : e.row[2] \in Range(hashes))

CountIn(s, e) == Cardinality({i \in 1..Len(s) : s[i] = e})

\* C14: at the end of a targeted scan with no store error the rows returned
\* for each repository are, each as many times, the rows of the full
\* traversal of that repository whose tree_hash is one of the selected
\* values.
C14_TargetedIsFilteredFull ==
    (~FullScan /\ fault = NoFault /\ StreamAtEOF) =>
        \A k \in 1..Len(dataset) :
            \A e \in Range(OutOf(k)) \cup Range(SelectedFullRows(k)) :
                CountIn(OutOf(k), e) = CountIn(SelectedFullRows(k), e)

\* the output expressions of n that are aggregations once their aliases
\* are taken off
AggregationsOf(n) ==
    {i \in 1..Len(n.exprs) : Unwrap(n.exprs[i]).kind = "agg"}

\* C15: under a GroupBy with grouping expressions the Group-by rule never
\* rejects an output expression that is an aggregation, bare or under
\* aliases, whatever the aggregation is applied to: an error of the rule
\* names an output expression that is none, and a list of such
\* aggregations passes.
C15_AggregateArgsUnchecked ==
    (/\ ran = "validate_group_by"
     /\ node.kind = "GroupBy"
     /\ Len(node.grouping) > 0) =>
        /\ verr # <<>> =>
              \E i \in (1..Len(node.exprs)) \ AggregationsOf(node) :
                  verr[1].args = <<node.exprs[i].str>>
        /\ AggregationsOf(node) = 1..Len(node.exprs) => verr = <<>>

C15_Witness ==
    /\ ran = "validate_group_by"
    /\ node.kind = "GroupBy"
    /\ node.grouping = <<Col("x")>>
    /\ node.exprs = <<CountOf(Col("y")), AliasOf(CountOf(Col("y")))>>
    /\ verr = <<>>

\* C18: the tree_entries table passes the Resolved rule and the
\* Schema-source rule, as a plan node of its own and under a TableAlias:
\* it is resolved and each of its five columns has the table's name as its
\* source.
C18_TreeEntriesTableValid ==
    (/\ node \in TreeEntriesNodes
     /\ ran \in {"validate_resolved", "validate_schema_source"}) =>
        verr = <<>>

C18_Witness ==
    /\ node.kind = "TableAlias"
    /\ node.child = <<treeEntriesTable>>
    /\ Len(node.child[1].schema) = 5
    /\ ran = "validate_schema_source"
    /\ verr = <<>>

\* turns the bound iterator it can still take: two for each hash or tree
\* not yet read, one for an open file cursor
IterWork(it) ==
    2 * (IF it.typ = "treeEntryIter" THEN Len(it.repo.trees) - it.ipos
         ELSE Len(it.hashes) - it.pos)
    + (IF it.fi # <<>> THEN 1 ELSE 0)

\* an upper bound of IterWork in the scan
Longest == Len(hashes) + Cardinality(TreeHashes)

\* turns the call in progress can still take
Work ==
    (Len(dataset) - repoPos) * (2 * Longest + 3)
    + (IF cur # <<>> THEN IterWork(cur[1]) + 2 ELSE 0)
    + (IF pc = "outer" THEN 1 ELSE 0)

\* C16: every call of Next returns after finitely many turns of the loops
\* (a turn that does not return uses up remaining work: a hash, a tree, a
\* repository or an open file cursor), the bound iterator of a repository
\* comes to its end of data and is let go, and the calls come to the end
\* of data of the stream.
C16_NextTerminates ==
    /\ [](pc = "inner" => cur # <<>>)
    /\ [][(pc # "idle" /\ pc' # "idle") => (Work' < Work /\ Work' >= 0)]_vars
    /\ (pc # "idle") ~> (pc = "idle")
    /\ (cur # <<>>) ~> (cur = <<>>)
    /\ <>(pc = "idle" /\ StreamAtEOF)

C16_Witness ==
    /\ pc = "idle"
    /\ StreamAtEOF
    /\ fault = NoFault
    /\ ~FullScan
    /\ Len(dataset) = 2
    /\ Len(out) = 1
    /\ out[1].src = 2

\* the rows of the n-th selected hash in repository k
HashRows(k, n) ==
    IF NewHash(hashes[n]) \in Range(dataset[k].trees)
    THEN TreeRows(k, NewHash(hashes[n])) ELSE <<>>

\* the rows an iterator over repository k has returned when it stands as
\* it does, having started at the first selected hash: those of the hashes
\* before pos, the last of them as far as the open file cursor has got
ProbedRows(k, it) ==
    Concat([n \in 1..it.pos |->
              IF n = it.pos /\ it.fi # <<>>
              THEN SubSeq(HashRows(k, n), 1, it.fi[1].n)
              ELSE HashRows(k, n)])

\* C17: in a targeted scan the factory stays as WithProjectAndFilters made
\* it, and the iterator bound to a repository holds that repository and
\* the selected hashes and has probed them from the first one on, whatever
\* the repositories before it were probed for.
C17_NewIteratorFresh ==
    ~FullScan =>
        /\ factory = HashIterOver(hashes)
        /\ cur # <<>> =>
              /\ cur[1].typ = "treeEntriesByHashIter"
              /\ cur[1].repo = dataset[repoPos]
              /\ cur[1].hashes = hashes
              /\ fault = NoFault => OutOf(repoPos) = ProbedRows(repoPos, cur[1])

C17_Witness ==
    /\ ~FullScan
    /\ fault = NoFault
    /\ Len(hashes) = 2
    /\ repoPos = 2
    /\ cur # <<>>
    /\ cur[1].pos = 1
    /\ Len(OutOf(1)) = 3
    /\ Len(OutOf(2)) = 1

\* C19: the targeted iterator returns the end of data, without a row, only
\* with every selected hash read and no file cursor open, and from then on
\* a call of Next returns the end of data again and leaves the iterator as
\* it was; the store failing in between changes nothing of it.
C19_EndOfDataStable ==
    /\ [](StreamAtEOF =>
            /\ last.row = <<>>
            /\ cur[1].pos >= Len(cur[1].hashes)
            /\ cur[1].fi = <<>>)
    /\ [][StreamAtEOF => (cur' = cur /\ last' = last /\ probed' = probed)]_vars

C19_Witness ==
    /\ StreamAtEOF
    /\ ticks = MaxLate
    /\ fault # NoFault
    /\ cur[1].pos = 2
    /\ cur[1].fi = <<>>

\* C20: the position of the targeted iterator stays between 0 and the
\* number of selected hashes and never goes back, and the indices of the
\* hash list it reads are 1, 2, ... up to the position, each once and none
\* beyond the list (i.hashes[0] .. i.hashes[pos-1] in the code's counting).
C20_PositionInvariant ==
    /\ [](cur # <<>> =>
            /\ cur[1].pos \in 0..Len(cur[1].hashes)
            /\ probed = [n \in 1..cur[1].pos |-> n])
    /\ [][(cur # <<>> /\ cur' # <<>>) => cur'[1].pos >= cur[1].pos]_vars

C20_Witness ==
    /\ cur # <<>>
    /\ erred
    /\ cur[1].pos = 2
    /\ probed = <<1, 2>>
    /\ last.err = "nil"
    /\ cur[1].fi # <<>>

===========================================================================
